---- MODULE Spec2Model ----
(***************************************************************************)
(* PromptPilot: the background service worker's queue state machine        *)
(* (src/background.js).  The worker holds one global record `state`; every *)
(* handler is an async function that runs atomically up to its next real   *)
(* suspension point (a chrome.* round trip or a timer) and is resumed      *)
(* later, so handlers interleave at those points.  `await sendLog(...)`    *)
(* awaits an already settled promise (sendLog contains no await): it only  *)
(* yields to the microtask queue of the running task and is not a point    *)
(* where another handler can run.                                          *)
(*                                                                         *)
(* A wait after which a handler only answers or only sets a timer is folded *)
(* into the step before it; every wait after which the handler reads or    *)
(* writes `state` is a suspension point of its own.                        *)
(*                                                                         *)
(* A JavaScript string is modelled as the sequence of its runs: a run      *)
(* [c, n] is the text c repeated n times, c being one character in a       *)
(* prompt and a whole literal in a message; "" is <<>>.                    *)
(***************************************************************************)
EXTENDS Integers, Sequences, FiniteSets, Bags, TLC

VARIABLES
    state,      \* the worker's global `state` object
    stored,     \* chrome.storage.local["automationState"]: <<>> or <<record>>
    tasks,      \* bag of suspended async continuations (handlers, loop steps, timers)
    resp,       \* what the step just taken passed to sendResponse (NoResp if nothing)
    reply,      \* what the step just taken got back from chrome.tabs.sendMessage
                \* (NoReply if it was not the callback of a dispatch)
    config,     \* CONFIG.autoDownload of the content script in the tab
    page,       \* what the content script did to the page for the request answered
                \* in the step just taken (NoPage if none was answered)
    input,      \* popup: the text given (prompt box or TXT file) and its parse
    logs,       \* popup: the rows of logsContainer and the log events received
    script      \* content script: one call of waitForElement, waitForElementEnabled
                \* or submitPrompt taken step by step (NoScript where the call is
                \* taken as a whole)

vars == <<state, stored, tasks, resp, reply, config, page, input, logs, script>>

---------------------------------------------------------------------------
(* Bounds of the model *)

MaxPrompts == 2      \* longest prompt list a start command carries
MaxTasks == 2        \* most continuations suspended at the same time
MaxText == 6         \* longest text typed into the prompt box or read from a file
MaxPageTasks == 5    \* most tasks of the page that change the button during one wait

(* Program constants *)

PreviewLen == 50     \* prompt.length > 50 ? prompt.substring(0, 50) + "..."
MaxRetries == 2      \* sendToContent(tabId, message, maxRetries = 2)
DefaultDelay == 1000 \* delay: 1000 in the initial state object
PollInterval == 200  \* setTimeout(checkElement, 200) in waitForElement

---------------------------------------------------------------------------
(* Inputs *)

\* The string of n copies of the character c, and a literal text.
Chars(c, n) == <<[c |-> c, n |-> n]>>
Text(m) == <<[c |-> m, n |-> 1]>>

\* s.length, for a string of characters
RECURSIVE StrLen(_)
StrLen(s) == IF s = <<>> THEN 0 ELSE Head(s).n + StrLen(Tail(s))

\* s.substring(0, k), for a string of characters
RECURSIVE Substring(_, _)
Substring(s, k) ==
    IF k <= 0 \/ s = <<>> THEN <<>>
    ELSE IF Head(s).n <= k THEN <<Head(s)>> \o Substring(Tail(s), k - Head(s).n)
    ELSE Chars(Head(s).c, k)

ShortPrompt == Chars("a", 1)
LongPrompt == Chars("x", PreviewLen + 1)

\* message.prompts with prompts of 49 to 52 characters: one of a single
\* character, then one of as many characters ending in another character.
BoundaryLists ==
    {<<Chars("a", PreviewLen - 1), ShortPrompt>>}
        \cup {<<Chars("a", PreviewLen - 1 + k),
                Chars("a", PreviewLen - 1) \o Chars("b", k)>> : k \in 1..3}

\* The prompt list of length n: short and long prompts alternate.
PromptList(n) == [i \in 1..n |-> IF i % 2 = 1 THEN ShortPrompt ELSE LongPrompt]

\* parseInt(delayInput.value) || 1000 in handleStart: an empty or non-numeric
\* field (NaN, 0 here) and 0 give 1000, any other number is taken as typed.
handleStartDelay(typed) == IF typed = 0 THEN DefaultDelay ELSE typed

\* What the delay field holds when Start is clicked: nothing, a number below the
\* documented range (500-10000 ms), a number above it.
DelayInputs == {0, 100, 20000}

\* The payloads of the start message: message.prompts, message.delay,
\* message.autoDownload, with the auto-download box left checked.  The worker
\* accepts any list, the empty one included.
Payloads ==
    { [prompts |-> PromptList(n),
       delay |-> IF n % 2 = 1 THEN 500 ELSE DefaultDelay,
       autoDownload |-> TRUE] : n \in 0..MaxPrompts }

\* The start messages handleStart sends: a non-empty list, the delay as typed,
\* the auto-download box checked or not.
WidePayloads ==
    { [prompts |-> PromptList(n), delay |-> handleStartDelay(d), autoDownload |-> b] :
          n \in 1..MaxPrompts, d \in DelayInputs, b \in BOOLEAN }

\* One of them: one prompt, 100 typed as the delay, the box unchecked.
UncheckedPayload ==
    [prompts |-> PromptList(1), delay |-> handleStartDelay(100), autoDownload |-> FALSE]

Tabs == {1}          \* ids chrome.tabs.query can report for the active tab
NoTab == 0           \* tabId: null

NoResp == [cmd |-> "none", success |-> FALSE]
NoReply == [success |-> FALSE, error |-> "none"]
NoPage == [submitted |-> FALSE, download |-> "none"]

\* The popup as it opens: nothing typed or loaded, no log row.
NoInput == [text |-> <<>>, prompts |-> <<>>, by |-> "none"]
NoLogs == [rows |-> <<>>, seen |-> 0, variant |-> 1]

\* No call of the content script is being followed step by step.
NoScript == [pc |-> "none"]

\* chrome.runtime.lastError is set in the callback: the message reached no listener.
LastError == [success |-> FALSE, error |-> "Could not establish connection"]

---------------------------------------------------------------------------
(* The state object and the pure pieces of the handlers *)

InitState ==
    [ state |-> "idle", prompts |-> <<>>, currentIndex |-> 0, totalPrompts |-> 0,
      currentPrompt |-> <<>>, delay |-> DefaultDelay, tabId |-> NoTab,
      autoDownload |-> TRUE ]

\* getState(): the four fields the popup is shown; also the stateUpdate message.
getState(s) ==
    [ state |-> s.state, currentIndex |-> s.currentIndex,
      totalPrompts |-> s.totalPrompts, currentPrompt |-> s.currentPrompt ]

\* A preview that also cuts a prompt of exactly 50 characters.
PreviewCutsAtLimit(p) ==
    IF StrLen(p) >= PreviewLen THEN Substring(p, PreviewLen) \o Chars(".", 3) ELSE p

\* prompt.length > 50 ? prompt.substring(0, 50) + "..." : prompt
Preview(p) ==
    IF StrLen(p) > PreviewLen THEN Substring(p, PreviewLen) \o Chars(".", 3) ELSE p

\* state.prompts[state.currentIndex] (JavaScript indexes from 0)
PromptAt(s) == s.prompts[s.currentIndex + 1]

\* A start that keeps the preview the previous run was showing.
NewRunKeepsPreview(payload, tab) ==
    [ state |-> "running", prompts |-> payload.prompts, currentIndex |-> 0,
      totalPrompts |-> Len(payload.prompts), currentPrompt |-> state.currentPrompt,
      delay |-> payload.delay, tabId |-> tab, autoDownload |-> payload.autoDownload ]

\* state = { state: "running", prompts, currentIndex: 0, ... } in startAutomation
NewRun(payload, tab) ==
    [ state |-> "running", prompts |-> payload.prompts, currentIndex |-> 0,
      totalPrompts |-> Len(payload.prompts), currentPrompt |-> <<>>,
      delay |-> payload.delay, tabId |-> tab, autoDownload |-> payload.autoDownload ]

\* A loop that clears the preview at the end of the list and leaves the phase
\* as it is.
FinishStaysRunning(s) == [s EXCEPT !.currentPrompt = <<>>]

\* state.state = "finished"; state.currentPrompt = ""
Finish(s) == [s EXCEPT !.state = "finished", !.currentPrompt = <<>>]

\* A loop that counts an item twice.
AdvanceTwice(s) == [s EXCEPT !.currentIndex = @ + 2]

\* state.currentIndex++
Advance(s) == [s EXCEPT !.currentIndex = @ + 1]

\* A catch that counts the failed item as completed.
StepFailedCounted(s, msg) ==
    [s EXCEPT !.state = "error", !.currentPrompt = Text("Error: ") \o Text(msg),
              !.currentIndex = @ + 1]

\* catch of processNextPrompt: state.state = "error"; currentPrompt = `Error: ${message}`
StepFailed(s, msg) ==
    [s EXCEPT !.state = "error", !.currentPrompt = Text("Error: ") \o Text(msg)]

\* catch of startAutomation: state.state = "error"; currentPrompt = error.message
StartFailed(s, msg) == [s EXCEPT !.state = "error", !.currentPrompt = Text(msg)]

\* pauseAutomation, inside its guard
Paused(s) == [s EXCEPT !.state = "paused"]

\* A resume that starts the list over.
ResumedFromStart(s) == [s EXCEPT !.state = "running", !.currentIndex = 0]

\* resumeAutomation, inside its guard
Resumed(s) == [s EXCEPT !.state = "running"]

\* A stop that also forgets the list of the run.
StoppedForgetsList(s) ==
    [s EXCEPT !.state = "idle", !.currentPrompt = <<>>, !.prompts = <<>>,
              !.totalPrompts = 0]

\* stopAutomation, inside its guard
Stopped(s) == [s EXCEPT !.state = "idle", !.currentPrompt = <<>>]

\* A restore that keeps the stored phase.
RestoredAsIs(rec) == rec

\* onStartup: state = result.automationState; running/paused is reset to idle
Restored(rec) ==
    IF rec.state \in {"running", "paused"}
    THEN [rec EXCEPT !.state = "idle", !.currentPrompt = <<>>]
    ELSE rec

---------------------------------------------------------------------------
(* Suspended continuations *)

\* One continuation: where it is suspended (pc) and the locals it holds.
Task(pc, payload, tab, prompt, attempt) ==
    [ pc |-> pc, payload |-> payload, tabId |-> tab, prompt |-> prompt,
      attempt |-> attempt ]

NoPayload == [prompts |-> <<>>, delay |-> 0, autoDownload |-> FALSE]

StartTask(pc, payload, tab) == Task(pc, payload, tab, <<>>, 0)
CmdTask(pc) == Task(pc, NoPayload, NoTab, <<>>, 0)

\* A step of the loop holds `prompt`; once sendToContent is called it also holds
\* the message built from state.delay / state.autoDownload and state.tabId.
StepTask(pc, prompt) == Task(pc, NoPayload, NoTab, prompt, 0)

Pending == BagToSet(tasks)
NTasks == BagCardinality(tasks)
Room == NTasks < MaxTasks
Without(t) == tasks (-) SetToBag({t})
Replace(t, u) == (tasks (-) SetToBag({t})) (+) SetToBag({u})

\* The submitPrompt dispatches sent to the content script and not yet answered.
Outstanding == [t \in {u \in Pending : u.pc = "send"} |-> tasks[t]]
NOutstanding == BagCardinality(Outstanding)

\* broadcastState(): the stateUpdate message goes out and the whole state object
\* is handed to chrome.storage.local.set; the caller is suspended on the write.
Broadcast(s) == <<s>>

---------------------------------------------------------------------------
(* processNextPrompt, from its entry to its first suspension *)

\* A loop that does not look at the phase when it is entered.
ProcessEntryUnchecked(s) ==
    IF s.currentIndex >= s.totalPrompts
    THEN [st |-> Finish(s), saved |-> TRUE, next |-> {}]
    ELSE [st |-> [s EXCEPT !.currentPrompt = Preview(PromptAt(s))],
          saved |-> TRUE,
          next |-> {StepTask("save", PromptAt(s))}]

\* Result of entering processNextPrompt in state s: the state it leaves, whether
\* it called broadcastState, and the continuation it suspends as (none if it returned).
ProcessEntry(s) ==
    IF s.state # "running"
    THEN [st |-> s, saved |-> FALSE, next |-> {}]
    ELSE IF s.currentIndex >= s.totalPrompts
    THEN [st |-> Finish(s), saved |-> TRUE, next |-> {}]
    ELSE [st |-> [s EXCEPT !.currentPrompt = Preview(PromptAt(s))],
          saved |-> TRUE,
          next |-> {StepTask("save", PromptAt(s))}]

\* Run processNextPrompt in place of continuation t.
EnterLoop(t) ==
    LET r == ProcessEntry(state) IN
    /\ state' = r.st
    /\ stored' = IF r.saved THEN Broadcast(r.st) ELSE stored
    /\ tasks' = Without(t) (+) SetToBag(r.next)

---------------------------------------------------------------------------
(* start: startAutomation(prompts, delay, autoDownload) *)

\* No step of the worker or of the content script touches the popup's text box
\* or its log rows; the worker's steps take a call of the content script as a
\* whole.
PopupIdle == UNCHANGED <<input, logs, script>>

\* What a step of the worker lets the popup and the page see.  A step that sends
\* nothing to the tab leaves the content script alone.
Silent ==
    resp' = NoResp /\ reply' = NoReply /\ page' = NoPage /\ UNCHANGED config
    /\ PopupIdle
Answer(cmd, ok) ==
    resp' = [cmd |-> cmd, success |-> ok] /\ reply' = NoReply /\ page' = NoPage
    /\ UNCHANGED config /\ PopupIdle
Heard(r) ==
    resp' = NoResp /\ reply' = r /\ page' = NoPage /\ UNCHANGED config
    /\ PopupIdle

\* The listener of the content script takes the message as it is sent:
\* if (typeof message.autoDownload !== "undefined") CONFIG.autoDownload = ...
\* and submitPrompt starts.  (The worker always sends a defined autoDownload.)
Sent(msg) ==
    resp' = NoResp /\ reply' = NoReply /\ page' = NoPage
    /\ config' = msg.autoDownload /\ PopupIdle

\* case "start": the handler logs and is suspended in getActiveTab on chrome.tabs.query.
StartCmd(payload) ==
    /\ Room
    /\ tasks' = tasks (+) SetToBag({StartTask("query", payload, NoTab)})
    /\ Silent
    /\ UNCHANGED <<state, stored>>

\* catch of startAutomation: the state becomes error and is broadcast; when the
\* write ends start answers {success: false, error}.
StartCatch(t, msg) ==
    /\ state' = StartFailed(state, msg)
    /\ stored' = Broadcast(state')
    /\ tasks' = Without(t)
    /\ Answer("start", FALSE)

\* A start that marks the run as running once the tab is known, before the
\* script is injected.
StartQueryDoneRuns(t) ==
    /\ t.pc = "query"
    /\ \E tab \in Tabs :
          /\ tasks' = Replace(t, [t EXCEPT !.pc = "inject", !.tabId = tab])
          /\ state' = NewRun(t.payload, tab)
    /\ Silent
    /\ UNCHANGED stored

\* chrome.tabs.query answers with the active tab: executeScript is called.
StartQueryDone(t) ==
    /\ t.pc = "query"
    /\ \E tab \in Tabs : tasks' = Replace(t, [t EXCEPT !.pc = "inject", !.tabId = tab])
    /\ Silent
    /\ UNCHANGED <<state, stored>>

\* chrome.tabs.query answers with no tab: getActiveTab throws.
StartQueryFails(t) ==
    /\ t.pc = "query"
    /\ StartCatch(t, "No active tab found")

\* chrome.scripting.executeScript throws: injectContentScript rethrows.
StartInjectFails(t) ==
    /\ t.pc = "inject"
    /\ StartCatch(t, "Cannot access tab")

\* The script is injected and the 500 ms wait is over: the state object is
\* replaced and broadcast.
StartInit(t) ==
    /\ t.pc = "inject"
    /\ state' = NewRun(t.payload, t.tabId)
    /\ stored' = Broadcast(state')
    /\ tasks' = Replace(t, [t EXCEPT !.pc = "started"])
    /\ Silent

\* The write ends: processNextPrompt() is called and start answers {success: true}.
StartReturn(t) ==
    /\ t.pc = "started"
    /\ EnterLoop(t)
    /\ Answer("start", TRUE)

---------------------------------------------------------------------------
(* One step of the loop: processNextPrompt after its first suspension *)

\* return { success: true }: the result has no error field ("" here).
OkResponse == [success |-> TRUE, error |-> ""]

\* return { success: false, error: error.message }
Failure(msg) == [success |-> FALSE, error |-> msg]

\* What the page does while one request is handled: whether the textarea and the
\* Generate button are found within waitTimeoutMs, whether the button is enabled
\* in time before and after the prompt is typed, and the state of the download
\* button once the settle delay is over.
PageWith(failAt, dl) ==
    [ textarea |-> failAt # 1, button |-> failAt # 2, enabled |-> failAt # 3,
      ready |-> failAt # 4, download |-> dl ]

\* The page works, with each state of the download button, or fails one stage.
AllPages ==
    {PageWith(0, dl) : dl \in {"enabled", "disabled", "missing"}}
        \cup {PageWith(k, "missing") : k \in 1..4}

\* The page works, or the textarea is not found, or the button stays disabled.
Pages == {PageWith(0, "enabled"), PageWith(1, "missing"), PageWith(3, "missing")}

\* downloadVideo(): findDownloadButton throws (caught: false), the button is
\* disabled (false), or it is clicked (true).
downloadVideo(pg) ==
    IF pg.download = "missing" THEN FALSE
    ELSE IF pg.download = "disabled" THEN FALSE
    ELSE TRUE

\* A submitPrompt whose second wait rejects outside the try block: the listener
\* answers without a usable error.
submitPromptUncaught(pg, autoDownload) ==
    IF ~pg.textarea
    THEN [result |-> Failure("Timeout: textarea tidak ditemukan"), page |-> NoPage]
    ELSE IF ~pg.button
    THEN [result |-> Failure("Timeout: sp-button tidak ditemukan"), page |-> NoPage]
    ELSE IF ~pg.enabled
    THEN [result |-> Failure("Timeout waiting for button to become enabled"),
          page |-> NoPage]
    ELSE IF ~pg.ready
    THEN [result |-> Failure(""), page |-> NoPage]
    ELSE [result |-> OkResponse,
          page |-> [submitted |-> TRUE,
                    download |-> IF ~autoDownload THEN "none"
                                 ELSE IF downloadVideo(pg) THEN "clicked"
                                 ELSE "failed"]]

\* submitPrompt(prompt, delay) on page pg with CONFIG.autoDownload as given: the
\* result it returns and what it did to the page.  Every throw inside is caught
\* and turned into { success: false, error }.
submitPrompt(pg, autoDownload) ==
    IF ~pg.textarea
    THEN [result |-> Failure("Timeout: textarea tidak ditemukan"), page |-> NoPage]
    ELSE IF ~pg.button
    THEN [result |-> Failure("Timeout: sp-button tidak ditemukan"), page |-> NoPage]
    ELSE IF ~pg.enabled
    THEN [result |-> Failure("Timeout waiting for button to become enabled"),
          page |-> NoPage]
    ELSE IF ~pg.ready
    THEN [result |-> Failure("Timeout waiting for button to become enabled"),
          page |-> NoPage]
    ELSE [result |-> OkResponse,
          page |-> [submitted |-> TRUE,
                    download |-> IF ~autoDownload THEN "none"
                                 ELSE IF downloadVideo(pg) THEN "clicked"
                                 ELSE "failed"]]

\* response.error || "Submission failed"
ErrorOf(r) == IF r.error = "" THEN "Submission failed" ELSE r.error

\* The write of the preview ends: sendToContent(state.tabId, {submitPrompt, prompt,
\* delay: state.delay, autoDownload: state.autoDownload}) sends attempt 1.
Dispatch(t) ==
    /\ t.pc = "save"
    /\ tasks' = Replace(t,
          [t EXCEPT !.pc = "send", !.attempt = 1, !.tabId = state.tabId,
                    !.payload = [prompts |-> <<>>, delay |-> state.delay,
                                 autoDownload |-> state.autoDownload]])
    /\ Sent(state)
    /\ UNCHANGED <<state, stored>>

\* A loop that does not look at the phase again after the dispatch.
HandleResponseUnchecked(s, r) ==
    IF r.success
    THEN IF Advance(s).currentIndex < s.totalPrompts
         THEN [st |-> Advance(s), saved |-> TRUE, timer |-> TRUE]
         ELSE [st |-> Finish(Advance(s)), saved |-> TRUE, timer |-> FALSE]
    ELSE [st |-> StepFailed(s, ErrorOf(r)), saved |-> TRUE, timer |-> FALSE]

\* processNextPrompt from `await sendToContent` on, given the response: the state
\* it leaves, whether it called broadcastState, and whether it scheduled the
\* 100 ms timer that calls processNextPrompt again.
HandleResponse(s, r) ==
    IF s.state # "running"
    THEN [st |-> s, saved |-> FALSE, timer |-> FALSE]
    ELSE IF r.success
    THEN IF Advance(s).state = "running" /\ Advance(s).currentIndex < s.totalPrompts
         THEN [st |-> Advance(s), saved |-> TRUE, timer |-> TRUE]
         ELSE [st |-> Finish(Advance(s)), saved |-> TRUE, timer |-> FALSE]
    ELSE [st |-> StepFailed(s, ErrorOf(r)), saved |-> TRUE, timer |-> FALSE]

\* The content script has run submitPrompt on page pg (it reads CONFIG.autoDownload
\* when the settle delay is over and touches nothing shared after that) and
\* chrome.tabs.sendMessage calls back with its result.
Respond(t, pg) ==
    LET run == submitPrompt(pg, config)
        h == HandleResponse(state, run.result) IN
    /\ t.pc = "send"
    /\ state' = h.st
    /\ stored' = IF h.saved THEN Broadcast(h.st) ELSE stored
    /\ tasks' = IF h.timer THEN Replace(t, CmdTask("timer")) ELSE Without(t)
    /\ resp' = NoResp
    /\ reply' = run.result
    /\ page' = run.page
    /\ UNCHANGED config
    /\ PopupIdle

RespondOk(t) ==
    \E pg \in Pages : submitPrompt(pg, config).result.success /\ Respond(t, pg)
RespondFail(t) ==
    \E pg \in Pages : ~submitPrompt(pg, config).result.success /\ Respond(t, pg)

\* The same two steps on any page of AllPages.
RespondOkAny(t) ==
    \E pg \in AllPages : submitPrompt(pg, config).result.success /\ Respond(t, pg)
RespondFailAny(t) ==
    \E pg \in AllPages : ~submitPrompt(pg, config).result.success /\ Respond(t, pg)

\* A sendToContent that retries after its last attempt too.
TransportRetryAgain(t) ==
    /\ t.pc = "send"
    /\ t.attempt <= MaxRetries
    /\ tasks' = Replace(t, [t EXCEPT !.pc = "backoff"])
    /\ Heard(LastError)
    /\ UNCHANGED <<state, stored>>

\* chrome.tabs.sendMessage calls back with chrome.runtime.lastError set and
\* attempts remain: sendToContent waits 1000 ms.
TransportRetry(t) ==
    /\ t.pc = "send"
    /\ t.attempt < MaxRetries
    /\ tasks' = Replace(t, [t EXCEPT !.pc = "backoff"])
    /\ Heard(LastError)
    /\ UNCHANGED <<state, stored>>

\* The 1000 ms backoff ends: the same message is sent again.
Retry(t) ==
    /\ t.pc = "backoff"
    /\ tasks' = Replace(t, [t EXCEPT !.pc = "send", !.attempt = @ + 1])
    /\ Sent(t.payload)
    /\ UNCHANGED <<state, stored>>

\* lastError on the last attempt: sendToContent throws into the catch of
\* processNextPrompt.
TransportFails(t) ==
    /\ t.pc = "send"
    /\ t.attempt >= MaxRetries
    /\ state' = StepFailed(state, LastError.error)
    /\ stored' = Broadcast(state')
    /\ tasks' = Without(t)
    /\ Heard(LastError)

\* The write after currentIndex++ is over and the 100 ms timer fires:
\* processNextPrompt().
TimerFires(t) ==
    /\ t.pc = "timer"
    /\ EnterLoop(t)
    /\ Silent

---------------------------------------------------------------------------
(* pause, resume, stop *)

\* case "pause" while running: paused and broadcast; {success: true} is answered
\* when the write ends, and the handler touches nothing in between.
PauseCmd ==
    /\ state.state = "running"
    /\ state' = Paused(state)
    /\ stored' = Broadcast(state')
    /\ Answer("pause", TRUE)
    /\ UNCHANGED tasks

\* case "pause" otherwise: {success: false, error: "Not running"}.
PauseReject ==
    /\ state.state # "running"
    /\ Answer("pause", FALSE)
    /\ UNCHANGED <<state, stored, tasks>>

\* case "resume" while paused: running and broadcast; the handler is suspended
\* on the write.
ResumeCmd ==
    /\ state.state = "paused"
    /\ Room
    /\ state' = Resumed(state)
    /\ stored' = Broadcast(state')
    /\ tasks' = tasks (+) SetToBag({CmdTask("resuming")})
    /\ Silent

\* The write ends: processNextPrompt() is called and resume answers {success: true}.
ResumeReturn(t) ==
    /\ t.pc = "resuming"
    /\ EnterLoop(t)
    /\ Answer("resume", TRUE)

\* case "resume" otherwise: {success: false, error: "Not paused"}.
ResumeReject ==
    /\ state.state # "paused"
    /\ Answer("resume", FALSE)
    /\ UNCHANGED <<state, stored, tasks>>

\* case "stop" while running or paused: idle and broadcast; {success: true} is
\* answered when the write ends, and the handler touches nothing in between.
StopCmd ==
    /\ state.state \in {"running", "paused"}
    /\ state' = Stopped(state)
    /\ stored' = Broadcast(state')
    /\ Answer("stop", TRUE)
    /\ UNCHANGED tasks

\* A stop that resets the state before it looks at the phase.
StopRejectResets ==
    /\ state.state \notin {"running", "paused"}
    /\ state' = Stopped(state)
    /\ stored' = Broadcast(state')
    /\ Answer("stop", FALSE)
    /\ UNCHANGED tasks

\* case "stop" otherwise: {success: false, error: "Not running"}.
StopReject ==
    /\ state.state \notin {"running", "paused"}
    /\ Answer("stop", FALSE)
    /\ UNCHANGED <<state, stored, tasks>>

---------------------------------------------------------------------------
(* getState *)

\* A getState that reports the length of the list as the cursor.
GetStateSkewed ==
    /\ resp' = [cmd |-> "getState",
                state |-> [getState(state) EXCEPT !.currentIndex = Len(state.prompts)]]
    /\ reply' = NoReply
    /\ page' = NoPage
    /\ UNCHANGED <<state, stored, tasks, config>>
    /\ PopupIdle

\* case "getState": answered in the step that receives it, with { state: {...} }.
GetStateCmd ==
    /\ resp' = [cmd |-> "getState", state |-> getState(state)]
    /\ reply' = NoReply
    /\ page' = NoPage
    /\ UNCHANGED <<state, stored, tasks, config>>
    /\ PopupIdle

---------------------------------------------------------------------------
(* Restart of the worker with the browser: onStartup *)

\* The old worker is gone with everything it had suspended; the new one starts
\* from the initial state object and the onStartup listener restores the record.
Startup ==
    /\ state' = IF stored = <<>> THEN InitState ELSE Restored(stored[1])
    /\ tasks' = EmptyBag
    /\ Silent
    /\ UNCHANGED stored

---------------------------------------------------------------------------
(* The popup: reading prompts from the prompt box or a TXT file *)

\* A text here is the sequence of its characters; LF and CR stand for "\n", "\r".
Alphabet == {"a", "b", " ", "LF", "CR"}

\* What String.prototype.trim removes, among the characters of Alphabet.
Whitespace == {" ", "LF", "CR"}

\* The texts of at most max characters.
TextsUpTo(max) == UNION {[1..n -> Alphabet] : n \in 0..max}

\* text.split(/\r?\n/), cur being the line read so far: a line ends at "\n", or at
\* "\r\n" taken together.
RECURSIVE SplitFrom(_, _)
SplitFrom(s, cur) ==
    IF s = <<>> THEN <<cur>>
    ELSE IF Head(s) = "LF" THEN <<cur>> \o SplitFrom(Tail(s), <<>>)
    ELSE IF Head(s) = "CR" /\ Len(s) >= 2 /\ s[2] = "LF"
    THEN <<cur>> \o SplitFrom(Tail(Tail(s)), <<>>)
    ELSE SplitFrom(Tail(s), Append(cur, Head(s)))

Split(text) == SplitFrom(text, <<>>)

RECURSIVE TrimStart(_)
TrimStart(s) ==
    IF s # <<>> /\ Head(s) \in Whitespace THEN TrimStart(Tail(s)) ELSE s

RECURSIVE TrimEnd(_)
TrimEnd(s) ==
    IF s # <<>> /\ s[Len(s)] \in Whitespace THEN TrimEnd(SubSeq(s, 1, Len(s) - 1)) ELSE s

\* A trim that leaves a carriage return at the end of the line.
TrimKeepsCR(s) ==
    IF s # <<>> /\ s[Len(s)] = "CR" THEN Append(TrimEnd(TrimStart(s)), "CR")
    ELSE TrimEnd(TrimStart(s))

\* line.trim()
Trim(s) == TrimEnd(TrimStart(s))

NonEmpty(line) == Len(line) > 0

\* lines.map((line) => line.trim()).filter((line) => line.length > 0)
TrimAndFilter(lines) == SelectSeq([i \in 1..Len(lines) |-> Trim(lines[i])], NonEmpty)

\* parseTXT(file), text being the content FileReader hands over
parseTXT(text) == TrimAndFilter(Split(text))

\* getManualPrompts(), text being promptInput.value
getManualPrompts(text) ==
    IF Trim(text) = <<>> THEN <<>> ELSE TrimAndFilter(Split(Trim(text)))

\* A TXT file is chosen: its prompts are parsed.
LoadFile ==
    /\ input.by = "none"
    /\ input' = [input EXCEPT !.prompts = parseTXT(input.text), !.by = "file"]
    /\ UNCHANGED <<state, stored, tasks, resp, reply, config, page, logs, script>>

\* Start is clicked: handleStart reads the prompt box.
ReadBox ==
    /\ input.by = "none"
    /\ input' = [input EXCEPT !.prompts = getManualPrompts(input.text), !.by = "box"]
    /\ UNCHANGED <<state, stored, tasks, resp, reply, config, page, logs, script>>

---------------------------------------------------------------------------

---------------------------------------------------------------------------
(* Popup: the log view *)

\* "Keep max 100 logs"
LogCap == 100
\* Log events one popup receives.
MaxLogEvents == 103
\* 1: the plain log view (div.log-entry); 2: the list view (div.list-row).
LogViews == {1, 2}

\* The `while` of the plain view: the first child goes until at most LogCap stay.
RECURSIVE RemoveFirstWhileOver(_)
RemoveFirstWhileOver(rows) ==
    IF Len(rows) > LogCap THEN RemoveFirstWhileOver(Tail(rows)) ELSE rows

\* A log view that drops the entry just added once it is full.
addLogKeepsOldest(rows, entry) ==
    IF Len(rows) + 1 > LogCap THEN rows ELSE Append(rows, entry)

\* addLog of the plain view: append, then trim from the front.
addLog(rows, entry) == RemoveFirstWhileOver(Append(rows, entry))

\* addLog of the list view: append, then remove rows[0] if more than LogCap rows.
addLogListView(rows, entry) ==
    LET rs == Append(rows, entry)
    IN IF Len(rs) > LogCap THEN Tail(rs) ELSE rs

\* A log message reaches the popup; the entry is known by its arrival number.
LogArrives ==
    /\ logs.seen < MaxLogEvents
    /\ logs' = [logs EXCEPT
                  !.seen = logs.seen + 1,
                  !.rows = IF logs.variant = 1
                           THEN addLog(logs.rows, logs.seen + 1)
                           ELSE addLogListView(logs.rows, logs.seen + 1)]
    /\ UNCHANGED <<state, stored, tasks, resp, reply, config, page, input, script>>

---------------------------------------------------------------------------
(* Content script: submitPrompt(prompt, delay), stage by stage *)

\* The stages of submitPrompt in the order of its text.
StageOrder ==
    << "textarea", "button", "enabled", "clear", "type", "ready", "click", "settle",
       "download" >>

StageNo(stage) == CHOOSE i \in 1..Len(StageOrder) : StageOrder[i] = stage

\* A request has arrived on page pg, whose textarea holds an old value or not:
\* submitPrompt is about to look for the textarea.
NewRequest(pg, stale) ==
    [ pc |-> "textarea", pg |-> pg, value |-> IF stale THEN "old" ELSE "",
      done |-> <<>>, clicks |-> 0, download |-> "none", result |-> NoReply ]

Elsewhere == UNCHANGED <<state, stored, tasks, resp, reply, config, page, input, logs>>

\* A stage ends and submitPrompt goes on to the stage `next`.
Passed(stage, next) ==
    script' = [script EXCEPT !.pc = next, !.done = Append(@, stage)]

\* A stage throws: the catch of submitPrompt returns { success: false, error }.
Caught(msg) ==
    script' = [script EXCEPT !.pc = "returned", !.result = Failure(msg)]

\* Step 1: const textarea = await findTextarea(CONFIG.waitTimeoutMs)
FindTextareaStage ==
    /\ script.pc = "textarea"
    /\ IF script.pg.textarea THEN Passed("textarea", "button")
       ELSE Caught("Timeout: textarea tidak ditemukan")
    /\ Elsewhere

\* Step 2: const button = await findGenerateButton(CONFIG.waitTimeoutMs)
FindButtonStage ==
    /\ script.pc = "button"
    /\ IF script.pg.button THEN Passed("button", "enabled")
       ELSE Caught("Timeout: sp-button tidak ditemukan")
    /\ Elsewhere

\* Step 3: await waitForElementEnabled(button, CONFIG.waitTimeoutMs)
WaitEnabledStage ==
    /\ script.pc = "enabled"
    /\ IF script.pg.enabled THEN Passed("enabled", "clear")
       ELSE Caught("Timeout waiting for button to become enabled")
    /\ Elsewhere

\* Step 4: if (textarea.value) { setInputValue(textarea, ""); wait 100 ms }
ClearStage ==
    /\ script.pc = "clear"
    /\ script' = [script EXCEPT
                    !.pc = "type",
                    !.value = "",
                    !.done = IF script.value # "" THEN Append(@, "clear") ELSE @]
    /\ Elsewhere

\* A submitPrompt that clicks as soon as the prompt is typed.
TypeStageThenClick ==
    /\ script.pc = "type"
    /\ script' = [script EXCEPT !.pc = "click", !.value = "prompt",
                                 !.done = Append(@, "type")]
    /\ Elsewhere

\* Step 5: setInputValue(textarea, prompt); wait 200 ms
TypeStage ==
    /\ script.pc = "type"
    /\ script' = [script EXCEPT !.pc = "ready", !.value = "prompt",
                                 !.done = Append(@, "type")]
    /\ Elsewhere

\* Step 6: await waitForElementEnabled(button, CONFIG.waitTimeoutMs)
WaitReadyStage ==
    /\ script.pc = "ready"
    /\ IF script.pg.ready THEN Passed("ready", "click")
       ELSE Caught("Timeout waiting for button to become enabled")
    /\ Elsewhere

\* Step 7: clickElement(button); wait 500 ms
ClickStage ==
    /\ script.pc = "click"
    /\ script' = [script EXCEPT !.pc = "settle", !.clicks = @ + 1,
                                 !.done = Append(@, "click")]
    /\ Elsewhere

\* Step 8: wait `delay` ms
SettleStage ==
    /\ script.pc = "settle"
    /\ Passed("settle", "download")
    /\ Elsewhere

\* Step 9: if (CONFIG.autoDownload) downloadVideo(), whose failure is only
\* logged; then return { success: true }.
DownloadStage ==
    /\ script.pc = "download"
    /\ script' = [script EXCEPT
                    !.pc = "returned",
                    !.result = OkResponse,
                    !.done = IF config THEN Append(@, "download") ELSE @,
                    !.download = IF ~config THEN "none"
                                 ELSE IF downloadVideo(script.pg) THEN "clicked"
                                 ELSE "failed"]
    /\ Elsewhere

---------------------------------------------------------------------------
(* Content script: waitForElementEnabled(element, timeout), step by step *)

\* waitForElementEnabled is about to be called on a button that is disabled
\* (disabled or aria-disabled="true") or not.  `seen` lists what the button was
\* after each task of the page that changed it since the call.
NewWait(disabled) ==
    [ pc |-> "call", disabled |-> disabled, observer |-> FALSE, timer |-> FALSE,
      resolves |-> 0, rejects |-> 0, outcome |-> "pending", seen |-> <<>> ]

\* cleanup(); resolve(true).  A promise keeps its first settlement.
Resolved(w) ==
    [w EXCEPT !.pc = "settled", !.observer = FALSE, !.timer = FALSE,
              !.resolves = @ + 1,
              !.outcome = IF @ = "pending" THEN "resolved" ELSE @]

\* The executor of the promise: resolve at once if the button is enabled;
\* otherwise arm the timer, connect the observer and look once more.
CallWait ==
    /\ script.pc = "call"
    /\ script' = IF ~script.disabled
                 THEN [script EXCEPT !.pc = "settled", !.resolves = @ + 1,
                                     !.outcome = "resolved"]
                 ELSE LET w == [script EXCEPT !.pc = "waiting", !.timer = TRUE,
                                              !.observer = TRUE]
                      IN IF ~w.disabled THEN Resolved(w) ELSE w
    /\ Elsewhere

\* A task of the page changes the disabled / aria-disabled attributes and leaves
\* the button disabled or not; at the end of the task a connected observer is
\* called back and looks at the button as it is then.
PageTask ==
    /\ script.pc \in {"waiting", "settled"}
    /\ Len(script.seen) < MaxPageTasks
    /\ \E after \in BOOLEAN :
          LET w == [script EXCEPT !.disabled = after, !.seen = Append(@, after)]
          IN script' = IF w.observer /\ ~w.disabled THEN Resolved(w) ELSE w
    /\ Elsewhere

\* A timeout that rejects and leaves the observer connected.
TimeoutFiresKeepsObserver ==
    /\ script.timer
    /\ script' = [script EXCEPT !.pc = "settled", !.timer = FALSE,
                                 !.rejects = @ + 1,
                                 !.outcome = IF @ = "pending" THEN "rejected" ELSE @]
    /\ Elsewhere

\* The timer fires after `timeout` ms: cleanup(); reject(new Error("Timeout ...")).
TimeoutFires ==
    /\ script.timer
    /\ script' = [script EXCEPT !.pc = "settled", !.observer = FALSE,
                                 !.timer = FALSE, !.rejects = @ + 1,
                                 !.outcome = IF @ = "pending" THEN "rejected" ELSE @]
    /\ Elsewhere

---------------------------------------------------------------------------
(* Content script: waitForElement(selector, root, timeout), poll by poll *)

\* The `timeout` argument, in ms (scaled down from the 10000 - 180000 ms of the
\* callers), and the time after which a 200 ms timer actually fires.
Timeouts == {0, 400, 600, 1000}
TimerDelays == {PollInterval, PollInterval + 150}

\* waitForElement is about to be called; a node matching the selector is in the
\* root or not.
NewPoll(timeout, present) ==
    [ pc |-> "call", timeout |-> timeout, present |-> present, elapsed |-> 0,
      polls |-> 0, outcome |-> "pending" ]

\* A checkElement that looks at the clock before it looks for the node.
checkElementClockFirst(w) ==
    IF w.elapsed > w.timeout
    THEN [w EXCEPT !.pc = "settled", !.polls = @ + 1, !.outcome = "rejected"]
    ELSE IF w.present
    THEN [w EXCEPT !.pc = "settled", !.polls = @ + 1, !.outcome = "resolved"]
    ELSE [w EXCEPT !.pc = "sleeping", !.polls = @ + 1]

\* checkElement(): resolve(element) if root.querySelector finds it, reject if
\* Date.now() - startTime > timeout, else setTimeout(checkElement, 200).
checkElement(w) ==
    IF w.present
    THEN [w EXCEPT !.pc = "settled", !.polls = @ + 1, !.outcome = "resolved"]
    ELSE IF w.elapsed > w.timeout
    THEN [w EXCEPT !.pc = "settled", !.polls = @ + 1, !.outcome = "rejected"]
    ELSE [w EXCEPT !.pc = "sleeping", !.polls = @ + 1]

\* The executor of the promise: startTime is taken and checkElement runs.
CallPoll ==
    /\ script.pc = "call"
    /\ script' = checkElement(script)
    /\ Elsewhere

\* The page adds or removes the node while the poll sleeps.
PageChanges ==
    /\ script.pc = "sleeping"
    /\ script' = [script EXCEPT !.present = ~@]
    /\ Elsewhere

\* The 200 ms timer fires, on time or late: checkElement runs again.
PollAgain ==
    /\ script.pc = "sleeping"
    /\ \E d \in TimerDelays :
          script' = checkElement([script EXCEPT !.elapsed = @ + d])
    /\ Elsewhere

Init ==
    /\ state = InitState
    /\ stored = <<>>
    /\ tasks = EmptyBag
    /\ resp = NoResp
    /\ reply = NoReply
    /\ config = TRUE
    /\ page = NoPage
    /\ input = NoInput
    /\ logs = NoLogs
    /\ script = NoScript

\* The steps of a suspended startAutomation.
StartStep(t) ==
    \/ StartQueryDone(t)
    \/ StartQueryFails(t)
    \/ StartInjectFails(t)
    \/ StartInit(t)
    \/ StartReturn(t)

\* Each step of a continuation, taken by any of the suspended continuations.
StartQueryDoneStep == \E t \in Pending : StartQueryDone(t)
StartQueryFailsStep == \E t \in Pending : StartQueryFails(t)
StartInjectFailsStep == \E t \in Pending : StartInjectFails(t)
StartInitStep == \E t \in Pending : StartInit(t)
StartReturnStep == \E t \in Pending : StartReturn(t)
DispatchStep == \E t \in Pending : Dispatch(t)
RespondOkStep == \E t \in Pending : RespondOk(t)
RespondFailStep == \E t \in Pending : RespondFail(t)
TransportRetryStep == \E t \in Pending : TransportRetry(t)
RetryStep == \E t \in Pending : Retry(t)
TransportFailsStep == \E t \in Pending : TransportFails(t)
TimerFiresStep == \E t \in Pending : TimerFires(t)
ResumeReturnStep == \E t \in Pending : ResumeReturn(t)

Next ==
    \/ \E payload \in Payloads : StartCmd(payload)
    \/ PauseCmd
    \/ PauseReject
    \/ ResumeCmd
    \/ ResumeReject
    \/ StopCmd
    \/ StopReject
    \/ GetStateCmd
    \/ Startup
    \/ StartQueryDoneStep
    \/ StartQueryFailsStep
    \/ StartInjectFailsStep
    \/ StartInitStep
    \/ StartReturnStep
    \/ DispatchStep
    \/ RespondOkStep
    \/ RespondFailStep
    \/ TransportRetryStep
    \/ RetryStep
    \/ TransportFailsStep
    \/ TimerFiresStep
    \/ ResumeReturnStep

Spec == Init /\ [][Next]_vars

\* One start at a time and no other command: the popup starts a run and then
\* only polls getState until the run has ended.
LoneStart == \E payload \in Payloads : tasks = EmptyBag /\ StartCmd(payload)

SoloNext ==
    \/ LoneStart
    \/ GetStateCmd
    \/ StartQueryDoneStep
    \/ StartQueryFailsStep
    \/ StartInjectFailsStep
    \/ StartInitStep
    \/ StartReturnStep
    \/ DispatchStep
    \/ RespondOkStep
    \/ RespondFailStep
    \/ TransportRetryStep
    \/ RetryStep
    \/ TransportFailsStep
    \/ TimerFiresStep

SoloSpec == Init /\ [][SoloNext]_vars

\* The callback of chrome.tabs.sendMessage runs: an answer of the content script
\* or chrome.runtime.lastError.
ResultStep ==
    \/ RespondOkStep
    \/ RespondFailStep
    \/ TransportRetryStep
    \/ TransportFailsStep

\* SoloSpec with the progress the browser gives: a chrome.storage.local.set
\* completes (the handler or step suspended on it goes on), every dispatch gets
\* its callback, and the timers of the backoff and of the next step fire.
FairSoloSpec ==
    /\ SoloSpec
    /\ WF_vars(StartReturnStep)
    /\ WF_vars(DispatchStep)
    /\ WF_vars(ResultStep)
    /\ WF_vars(RetryStep)
    /\ WF_vars(TimerFiresStep)

\* One run at a time: a start is sent only when nothing of an earlier run is
\* suspended any more; pause, resume, stop and getState come at any time.
RunNext ==
    \/ LoneStart
    \/ PauseCmd
    \/ PauseReject
    \/ ResumeCmd
    \/ ResumeReject
    \/ StopCmd
    \/ StopReject
    \/ GetStateCmd
    \/ StartQueryDoneStep
    \/ StartQueryFailsStep
    \/ StartInjectFailsStep
    \/ StartInitStep
    \/ StartReturnStep
    \/ DispatchStep
    \/ RespondOkStep
    \/ RespondFailStep
    \/ TransportRetryStep
    \/ RetryStep
    \/ TransportFailsStep
    \/ TimerFiresStep
    \/ ResumeReturnStep

RunSpec == Init /\ [][RunNext]_vars

\* One run at a time over a list with a prompt about as long as the preview.
BoundaryStart ==
    \E list \in BoundaryLists :
        /\ tasks = EmptyBag
        /\ StartCmd([prompts |-> list, delay |-> DefaultDelay, autoDownload |-> TRUE])

PreviewNext ==
    \/ BoundaryStart
    \/ PauseCmd
    \/ PauseReject
    \/ ResumeCmd
    \/ ResumeReject
    \/ StopCmd
    \/ StopReject
    \/ GetStateCmd
    \/ StartQueryDoneStep
    \/ StartQueryFailsStep
    \/ StartInjectFailsStep
    \/ StartInitStep
    \/ StartReturnStep
    \/ DispatchStep
    \/ RespondOkStep
    \/ RespondFailStep
    \/ TransportRetryStep
    \/ RetryStep
    \/ TransportFailsStep
    \/ TimerFiresStep
    \/ ResumeReturnStep

PreviewSpec == Init /\ [][PreviewNext]_vars

RespondOkAnyStep == \E t \in Pending : RespondOkAny(t)
RespondFailAnyStep == \E t \in Pending : RespondFailAny(t)

\* handleStart with anything the popup lets through, one run at a time, on any
\* page; the popup polls getState.
ClickStart == \E payload \in WidePayloads : tasks = EmptyBag /\ StartCmd(payload)

PageNext ==
    \/ ClickStart
    \/ GetStateCmd
    \/ StartQueryDoneStep
    \/ StartQueryFailsStep
    \/ StartInjectFailsStep
    \/ StartInitStep
    \/ StartReturnStep
    \/ DispatchStep
    \/ RespondOkAnyStep
    \/ RespondFailAnyStep
    \/ TransportRetryStep
    \/ RetryStep
    \/ TransportFailsStep
    \/ TimerFiresStep

PageSpec == Init /\ [][PageNext]_vars

\* Every command at any time on any page, the start messages of Spec and one
\* more with the auto-download box unchecked and a short delay typed.
WideNext ==
    \/ \E payload \in Payloads \cup {UncheckedPayload} : StartCmd(payload)
    \/ PauseCmd
    \/ PauseReject
    \/ ResumeCmd
    \/ ResumeReject
    \/ StopCmd
    \/ StopReject
    \/ GetStateCmd
    \/ Startup
    \/ StartQueryDoneStep
    \/ StartQueryFailsStep
    \/ StartInjectFailsStep
    \/ StartInitStep
    \/ StartReturnStep
    \/ DispatchStep
    \/ RespondOkAnyStep
    \/ RespondFailAnyStep
    \/ TransportRetryStep
    \/ RetryStep
    \/ TransportFailsStep
    \/ TimerFiresStep
    \/ ResumeReturnStep

WideSpec == Init /\ [][WideNext]_vars

\* The popup alone, with some text in the prompt box or in the file chosen.
ParseInit ==
    /\ state = InitState
    /\ stored = <<>>
    /\ tasks = EmptyBag
    /\ resp = NoResp
    /\ reply = NoReply
    /\ config = TRUE
    /\ page = NoPage
    /\ input \in {[NoInput EXCEPT !.text = text] : text \in TextsUpTo(MaxText)}
    /\ logs = NoLogs
    /\ script = NoScript

ParseNext ==
    \/ LoadFile
    \/ ReadBox

ParseSpec == ParseInit /\ [][ParseNext]_vars

\* The popup alone, in either variant of its log view, receiving log events.
LogInit ==
    /\ state = InitState
    /\ stored = <<>>
    /\ tasks = EmptyBag
    /\ resp = NoResp
    /\ reply = NoReply
    /\ config = TRUE
    /\ page = NoPage
    /\ input = NoInput
    /\ logs \in {[NoLogs EXCEPT !.variant = v] : v \in LogViews}
    /\ script = NoScript

LogNext == LogArrives

LogSpec == LogInit /\ [][LogNext]_vars

\* The content script alone, handling one submitPrompt request on any page,
\* with CONFIG.autoDownload on or off.
StageInit ==
    /\ state = InitState
    /\ stored = <<>>
    /\ tasks = EmptyBag
    /\ resp = NoResp
    /\ reply = NoReply
    /\ config \in BOOLEAN
    /\ page = NoPage
    /\ input = NoInput
    /\ logs = NoLogs
    /\ script \in {NewRequest(pg, stale) : pg \in AllPages, stale \in BOOLEAN}

StageNext ==
    \/ FindTextareaStage
    \/ FindButtonStage
    \/ WaitEnabledStage
    \/ ClearStage
    \/ TypeStage
    \/ WaitReadyStage
    \/ ClickStage
    \/ SettleStage
    \/ DownloadStage

StageSpec == StageInit /\ [][StageNext]_vars

\* The content script alone, in one call of waitForElement.
PollInit ==
    /\ state = InitState
    /\ stored = <<>>
    /\ tasks = EmptyBag
    /\ resp = NoResp
    /\ reply = NoReply
    /\ config = TRUE
    /\ page = NoPage
    /\ input = NoInput
    /\ logs = NoLogs
    /\ script \in {NewPoll(timeout, present) :
                      timeout \in Timeouts, present \in BOOLEAN}

PollNext ==
    \/ CallPoll
    \/ PageChanges
    \/ PollAgain

\* The executor runs when the promise is made, and the timer set by a poll fires.
PollSpec ==
    /\ PollInit
    /\ [][PollNext]_vars
    /\ WF_vars(CallPoll)
    /\ WF_vars(PollAgain)

\* The content script alone, in one call of waitForElementEnabled.
WaitInit ==
    /\ state = InitState
    /\ stored = <<>>
    /\ tasks = EmptyBag
    /\ resp = NoResp
    /\ reply = NoReply
    /\ config = TRUE
    /\ page = NoPage
    /\ input = NoInput
    /\ logs = NoLogs
    /\ script \in {NewWait(disabled) : disabled \in BOOLEAN}

WaitNext ==
    \/ CallWait
    \/ PageTask
    \/ TimeoutFires

\* The executor runs when the promise is made, and an armed timer fires.
WaitSpec ==
    /\ WaitInit
    /\ [][WaitNext]_vars
    /\ WF_vars(CallWait)
    /\ WF_vars(TimeoutFires)

---------------------------------------------------------------------------
(* Properties *)

Quiet == tasks = EmptyBag
Cursor == getState(state).currentIndex
Phase == getState(state).state
Total == Len(state.prompts)

\* The last stateUpdate message sent: broadcastState sends getState of the object
\* it stores, in the same call.
LastUpdate == getState(stored[1])

\* The cursor the popup has been shown: that of the last stateUpdate, or the 0 of
\* its own initial currentState when no stateUpdate was sent yet.
ShownCursor == IF stored = <<>> THEN 0 ELSE LastUpdate.currentIndex

\* The error phase was entered by the catch of processNextPrompt.
IsStepError ==
    Phase = "error" /\ state.currentPrompt # <<>> /\ state.currentPrompt[1].c = "Error: "

Answered(cmd) == resp' # resp /\ resp'.cmd = cmd

\* C1 (SoloSpec: one start of a non-empty list, then only getState): the cursor
\* getState reports never decreases during the run (only the state replacement
\* of a start sets it back to 0), and when the run has ended the phase is
\* finished with cursor = len(prompts), or error after a failed step with
\* cursor < len(prompts).
C1_CursorRun ==
    /\ []((Quiet /\ Total > 0) =>
            \/ Phase = "finished" /\ Cursor = Total /\ state.totalPrompts = Total
            \/ Phase = "error" /\ (IsStepError => Cursor < Total))
    /\ [][getState(state').currentIndex >= Cursor \/ StartInitStep]_vars

\* C1 witness: a run of two prompts has ended in error with the first one done.
C1_Witness ==
    Quiet /\ IsStepError /\ Cursor = 1 /\ Total = 2

\* C2 (as claimed): when the dispatch in flight during a pause is answered
\* {success: true}, the cursor advances by one for that item and the phase is paused.
C2_InFlightItemCounted ==
    [][\A t \in Pending :
          (Phase = "paused" /\ RespondOk(t)) =>
              /\ state'.currentIndex = Cursor + 1
              /\ state'.state = "paused"]_vars

\* C3 (amended): pause while running answers success and sets phase paused without
\* touching the cursor; and while the phase is not running (paused, or left paused
\* without a resume) no step changes the cursor, whatever the dispatch in flight
\* returns, except the state replacement of a new start.
C3_PauseFreezesCursor ==
    [][ /\ (Answered("pause") /\ Phase = "running") =>
              /\ resp'.success
              /\ state'.state = "paused"
              /\ state'.currentIndex = Cursor
        /\ (Phase # "running") =>
              \/ state'.currentIndex = Cursor
              \/ StartInitStep ]_vars

\* C3 (as claimed): while paused, no step changes the cursor.
C3_AsClaimed ==
    [][Phase = "paused" => state'.currentIndex = Cursor]_vars

\* C3 witness: the step for the first prompt was entered (its preview is shown),
\* its continuation has ended while paused, and the cursor is still 0.
C3_Witness ==
    /\ Phase = "paused"
    /\ Quiet
    /\ Cursor = 0
    /\ Total = 2
    /\ state.currentPrompt = Preview(ShortPrompt)

\* C4 (as claimed): stop while running or paused answers success and leaves
\* phase idle, cursor 0 and an empty activePromptPreview.
C4_StopResets ==
    [][(Answered("stop") /\ Phase \in {"running", "paused"}) =>
          /\ resp'.success
          /\ state'.state = "idle"
          /\ state'.currentIndex = 0
          /\ state'.currentPrompt = <<>>]_vars

\* C5: pause when not running, resume when not paused and stop when neither
\* running nor paused answer {success: false} and change neither the state
\* object nor the stored record.
C5_WrongPhaseRejected ==
    [][ /\ (Answered("pause") /\ Phase # "running") =>
              ~resp'.success /\ state' = state /\ stored' = stored
        /\ (Answered("resume") /\ ~ResumeReturnStep /\ Phase # "paused") =>
              ~resp'.success /\ state' = state /\ stored' = stored
        /\ (Answered("stop") /\ Phase \notin {"running", "paused"}) =>
              ~resp'.success /\ state' = state /\ stored' = stored ]_vars

\* C5 witness: a stop was refused after the run had finished.
C5_Witness ==
    /\ resp = [cmd |-> "stop", success |-> FALSE]
    /\ Phase = "finished"
    /\ stored = <<state>>

\* C6 (as claimed): a start whose prompt list is empty is refused: no step of its
\* handler makes the phase running, changes the state object on the way to
\* running, or answers {success: true}.
C6_EmptyStartRejected ==
    [][\A t \in Pending :
          (t.pc \in {"query", "inject", "started"} /\ t.payload.prompts = <<>>
             /\ StartStep(t)) =>
              /\ resp' # [cmd |-> "start", success |-> TRUE]
              /\ state'.state = "running" => state' = state]_vars

\* C7 (as claimed): whenever a dispatch ends in a transport failure with the
\* retries used up, or is answered {success: false}, the phase becomes error,
\* the cursor is unchanged and no further step is scheduled.
C7_FailureMeansError ==
    [][\A t \in Pending :
          (RespondFail(t) \/ TransportFails(t)) =>
              /\ state'.state = "error"
              /\ state'.currentIndex = Cursor
              /\ tasks' = Without(t)]_vars

\* C8 (as claimed): at most one submitPrompt dispatch is outstanding.
C8_OneInFlight == NOutstanding <= 1

\* C9: when the worker restarts on a stored record whose phase is running or
\* paused, the phase in memory is idle with an empty preview and nothing is
\* suspended; and from an idle worker with nothing suspended only a start
\* command brings a continuation (hence a dispatch) into being.
C9_ReloadIsIdle ==
    [][ /\ (Startup /\ stored # <<>> /\ stored[1].state \in {"running", "paused"}) =>
              /\ state'.state = "idle"
              /\ state'.currentPrompt = <<>>
              /\ tasks' = EmptyBag
        /\ (Quiet /\ Phase = "idle") =>
              \/ tasks' = EmptyBag /\ state'.state = "idle"
              \/ \E payload \in Payloads : StartCmd(payload) ]_vars

\* C9 witness: the worker is idle after a restart and the stored record still
\* says running or paused.
C9_Witness ==
    /\ Phase = "idle"
    /\ Quiet
    /\ stored # <<>>
    /\ stored[1].state \in {"running", "paused"}
    /\ stored[1].currentIndex = 1

\* C10 (SoloSpec: one start, no other command): the cursor of the stateUpdate
\* events starts at 0 with the start, is raised only by a dispatch answered
\* {success: true} and then by exactly one, and the success of the last dispatch
\* sends the last event: phase finished with cursor n.
C10_UpdatesInOrder ==
    /\ [][ \/ stored' = stored
           \/ StartInitStep /\ LastUpdate'.currentIndex = 0 /\ LastUpdate'.state = "running"
           \/ LastUpdate'.currentIndex = ShownCursor
           \/ /\ \E t \in Pending : RespondOk(t)
              /\ LastUpdate'.currentIndex = ShownCursor + 1
              /\ LastUpdate'.totalPrompts = Total
              /\ IF LastUpdate'.currentIndex = Total
                 THEN LastUpdate'.state = "finished" /\ tasks' = EmptyBag
                 ELSE LastUpdate'.state = "running" /\ tasks' # EmptyBag ]_vars
    /\ [](Phase = "finished" =>
            /\ LastUpdate = getState(state)
            /\ Cursor = Total)

\* C10 witness: two prompts done, the last event says finished with cursor 2.
C10_Witness ==
    /\ stored # <<>>
    /\ LastUpdate.state = "finished"
    /\ LastUpdate.currentIndex = 2
    /\ LastUpdate.totalPrompts = 2

C12_ResumeContinuesAtCursor ==
    [][ /\ (Phase = "paused" /\ ResumeCmd) =>
              /\ state'.state = "running"
              /\ state'.currentIndex = Cursor
              /\ state'.prompts = state.prompts
        /\ (Answered("resume") /\ ~resp'.success) => Phase # "paused"
        /\ \A t \in Pending : ResumeReturn(t) =>
              /\ resp' = [cmd |-> "resume", success |-> TRUE]
              /\ state'.currentIndex = Cursor
              /\ (Phase = "running" /\ Cursor < Total) =>
                    /\ state'.state = "running"
                    /\ state'.currentPrompt = Preview(state.prompts[Cursor + 1])
                    /\ \E u \in BagToSet(tasks') :
                          u.pc = "save" /\ u.prompt = state.prompts[Cursor + 1]
        /\ \A t \in Pending : Dispatch(t) =>
              \E u \in BagToSet(tasks') : u.pc = "send" /\ u.prompt = t.prompt ]_vars

\* C12 witness: resume has answered success at cursor 1 of 2 and the step for the
\* second prompt is entered.
C12_Witness ==
    /\ resp = [cmd |-> "resume", success |-> TRUE]
    /\ Phase = "running" /\ Cursor = 1 /\ Total = 2
    /\ state.currentPrompt = Preview(LongPrompt)
    /\ tasks = SetToBag({StepTask("save", LongPrompt)})

\* C13: while the phase is error the displayed status is a non-empty failure
\* message and the broadcast record is the state; no step other than the state
\* replacement of a new start changes the phase or the cursor (commands, timers,
\* late responses and late transport failures included); and the step that
\* enters error leaves the cursor where it was.
C13_ErrorIsTerminal ==
    /\ [](Phase = "error" => state.currentPrompt # <<>> /\ stored = <<state>>)
    /\ [][Phase = "error" =>
             \/ /\ state'.state = "error"
                /\ state'.currentIndex = Cursor
                /\ state'.currentPrompt # <<>>
             \/ StartInitStep]_vars
    /\ [][(Phase # "error" /\ state'.state = "error") =>
             state'.currentIndex = Cursor]_vars

\* C13 witness: a step failed at cursor 1 of 2, and a dispatch of another loop
\* has just been answered {success: true} while the phase was already error.
C13_Witness ==
    /\ IsStepError
    /\ Cursor = 1 /\ Total = 2
    /\ reply = OkResponse
    /\ Quiet

\* C14: a step sends its dispatch at most MaxRetries = 2 times.  The first
\* attempt is the dispatch itself; a further attempt is sent only at the end of a
\* backoff, a backoff is entered only by a transport failure of the first attempt
\* and sends the same message again; a transport failure of the second attempt
\* ends the step in phase error; and an answer of the content script, success or
\* failure, ends the attempts of the step: nothing is sent again for it.
C14_AtMostTwoAttempts ==
    /\ [](\A t \in Pending :
            /\ t.pc = "send" => t.attempt \in 1..MaxRetries
            /\ t.pc = "backoff" => t.attempt \in 1..(MaxRetries - 1))
    /\ [][\A t \in Pending :
            /\ Dispatch(t) => \E u \in BagToSet(tasks') : u.pc = "send" /\ u.attempt = 1
            /\ TransportRetry(t) =>
                  /\ t.attempt = 1
                  /\ tasks' = Replace(t, [t EXCEPT !.pc = "backoff"])
                  /\ state' = state
            /\ Retry(t) =>
                  tasks' = Replace(t, [t EXCEPT !.pc = "send", !.attempt = 2])
            /\ TransportFails(t) =>
                  /\ t.attempt = MaxRetries
                  /\ tasks' = Without(t)
                  /\ state'.state = "error"
            /\ (RespondFail(t) \/ RespondOk(t)) =>
                  /\ NOutstanding' = NOutstanding - 1
                  /\ \A u \in BagToSet(tasks') : u.pc = "backoff" => u \in Pending ]_vars
    /\ [][NOutstanding' > NOutstanding => (DispatchStep \/ RetryStep)]_vars

\* C14 witness: the second attempt of the step for the second prompt is in flight.
C14_Witness ==
    /\ \E t \in Pending : t.pc = "send" /\ t.attempt = MaxRetries /\ t.prompt = LongPrompt
    /\ Phase = "running" /\ Cursor = 1
    /\ NTasks = 1

\* A result of the shape the dispatch channel promises.
Structured(r) ==
    \/ r.success /\ r.error = ""
    \/ ~r.success /\ r.error # ""

\* The four stages before the click all pass on page pg.
StagesPass(pg) == pg.textarea /\ pg.button /\ pg.enabled /\ pg.ready

\* C15 (PageSpec): whatever the page does, a request that reached the content
\* script has a structured result to be answered with; when it is answered the
\* worker hears exactly that result, the request is no longer outstanding (one
\* answer, nothing sent again), the result is {success: true} exactly when the
\* textarea and the button were found and the button became enabled both times,
\* and {success: false, error} with a non-empty error otherwise, the Generate
\* button then not having been clicked.
C15_OneStructuredResult ==
    /\ [](\A pg \in AllPages : Structured(submitPrompt(pg, config).result))
    /\ [][\A t \in Pending : \A pg \in AllPages :
            Respond(t, pg) =>
              /\ Structured(reply')
              /\ reply'.success <=> StagesPass(pg)
              /\ page'.submitted <=> StagesPass(pg)
              /\ NOutstanding' = NOutstanding - 1
              /\ t \notin BagToSet(tasks')]_vars

\* C15 witness: the button never became enabled: the request was answered
\* {success: false, error: "Timeout waiting ..."} and the run shows that error.
C15_Witness ==
    /\ reply = Failure("Timeout waiting for button to become enabled")
    /\ ~page.submitted
    /\ IsStepError
    /\ state.currentPrompt[2].c = reply.error
    /\ Quiet

\* C16 (as claimed, WideSpec): when the four stages before the click pass the
\* request is answered {success: true} whatever the download button does, the
\* phase, if still running, does not become error and the cursor advances by one;
\* and for a request sent with autoDownload false no download is attempted.
C16_DownloadNeverMatters ==
    [][\A t \in Pending : \A pg \in AllPages :
          Respond(t, pg) =>
            /\ StagesPass(pg) => reply'.success
            /\ (StagesPass(pg) /\ Phase = "running") =>
                  /\ state'.state # "error"
                  /\ state'.currentIndex = Cursor + 1
            /\ ~t.payload.autoDownload => page'.download = "none"]_vars

\* C17: totalPrompts is the length of the prompt list in every reachable state;
\* a getState changes neither the state object nor the stored record nor what is
\* suspended, and answers with exactly the four fields state, currentIndex,
\* totalPrompts and currentPrompt as they are at that moment.
C17_GetStateReadsOnly ==
    /\ [](state.totalPrompts = Len(state.prompts))
    /\ [][Answered("getState") =>
            /\ state' = state /\ stored' = stored /\ tasks' = tasks
            /\ DOMAIN resp'.state =
                  {"state", "currentIndex", "totalPrompts", "currentPrompt"}
            /\ resp'.state.state = state.state
            /\ resp'.state.currentIndex = state.currentIndex
            /\ resp'.state.totalPrompts = Len(state.prompts)
            /\ resp'.state.currentPrompt = state.currentPrompt]_vars

\* C17 witness: getState was answered during the step for the second prompt:
\* running, cursor 1 of 2, the preview cut to 50 characters and "...".
C17_Witness ==
    /\ resp.cmd = "getState"
    /\ resp.state.state = "running"
    /\ resp.state.currentIndex = 1
    /\ resp.state.totalPrompts = 2
    /\ resp.state.currentPrompt = Chars("x", PreviewLen) \o Chars(".", 3)
    /\ NOutstanding = 1

\* The places <<f, l>> of text where the content of a line begins and ends: no
\* line break inside, no whitespace at either end, and nothing but whitespace
\* between it and the line breaks (or text ends) around it.
LineCores(text) ==
    { c \in (1..Len(text)) \X (1..Len(text)) :
        /\ c[1] <= c[2]
        /\ text[c[1]] \notin Whitespace
        /\ text[c[2]] \notin Whitespace
        /\ \A k \in c[1]..c[2] : text[k] # "LF"
        /\ \A k \in 1..(c[1] - 1) :
              (\A j \in k..(c[1] - 1) : text[j] # "LF") => text[k] \in Whitespace
        /\ \A k \in (c[2] + 1)..Len(text) :
              (\A j \in (c[2] + 1)..k : text[j] # "LF") => text[k] \in Whitespace }

\* The contents of the non-blank lines of text, in the order of the text.
LinesOf(text) ==
    LET cores == LineCores(text)
        nth(i) == CHOOSE c \in cores :
                      Cardinality({d \in cores : d[1] < c[1]}) = i - 1
    IN [i \in 1..Cardinality(cores) |-> SubSeq(text, nth(i)[1], nth(i)[2])]

\* a, blank line, " b "
ExampleText == <<"a", "LF", "LF", " ", "b", " ">>

\* C18 (ParseSpec): the prompts read from a text, from the prompt box or from a
\* TXT file alike, are the contents of its non-blank lines with the whitespace
\* around them removed, in the order of the text: no prompt is empty, begins or
\* ends with whitespace, or contains a line break; a, blank line, " b " gives
\* [a, b].
C18_ParsedLines ==
    input.by # "none" =>
        /\ input.prompts = LinesOf(input.text)
        /\ \A i \in 1..Len(input.prompts) :
              /\ input.prompts[i] # <<>>
              /\ Head(input.prompts[i]) \notin Whitespace
              /\ input.prompts[i][Len(input.prompts[i])] \notin Whitespace
              /\ \A k \in 1..Len(input.prompts[i]) : input.prompts[i][k] # "LF"
        /\ input.text = ExampleText => input.prompts = << <<"a">>, <<"b">> >>

\* C18 witness: the example text was read from the prompt box.
C18_Witness ==
    /\ input.by = "box"
    /\ input.text = ExampleText
    /\ input.prompts = << <<"a">>, <<"b">> >>

\* The documented range of the delay between prompts, in ms.
MinDelay == 500
MaxDelay == 10000

\* C19 (as claimed, WideSpec): the delay kept in the state object and the delay
\* of every submitPrompt message on its way to the content script lie within
\* 500..10000 ms.
C19_DelayInRange ==
    /\ state.delay \in MinDelay..MaxDelay
    /\ \A t \in Pending : t.pc = "send" => t.payload.delay \in MinDelay..MaxDelay

\* Entries on display after n arrivals: at most LogCap.
Shown(n) == IF n > LogCap THEN LogCap ELSE n

\* C20 (LogSpec): after any number of log events the view holds at most 100
\* entries, and they are the latest arrivals in the order they arrived.
C20_LastHundredLogs ==
    /\ Len(logs.rows) <= LogCap
    /\ logs.rows = [i \in 1..Shown(logs.seen) |-> logs.seen - Shown(logs.seen) + i]

\* C20 witness: more than 100 events arrived at the list view; the oldest were
\* dropped and the newest is the last row.
C20_Witness ==
    /\ logs.variant = 2
    /\ logs.seen > LogCap + 1
    /\ Len(logs.rows) = LogCap
    /\ logs.rows[1] = logs.seen - LogCap + 1
    /\ logs.rows[LogCap] = logs.seen

\* C21 (as claimed): every submitPrompt message, the first attempt and the retry
\* alike, is sent while the phase is running.
C21_DispatchOnlyWhileRunning ==
    [][\A t \in Pending : (Dispatch(t) \/ Retry(t)) => Phase = "running"]_vars

\* C22 (as claimed): whenever the cursor goes from k to k + 1 the step was the
\* answer {success: true} to a dispatch of prompts[k] of the list in the state.
C22_AdvanceByOwnPrompt ==
    [][state'.currentIndex = Cursor + 1 =>
          \E t \in Pending :
              /\ RespondOk(t)
              /\ Cursor < Total
              /\ t.prompt = state.prompts[Cursor + 1]]_vars

\* C23 (as claimed): the prompt a dispatch sends is the one at the cursor, in the
\* list of the state, at the moment it is sent.
C23_DispatchAtCursor ==
    [][\A t \in Pending :
          Dispatch(t) => Cursor < Total /\ t.prompt = state.prompts[Cursor + 1]]_vars

\* C24 (as claimed, RunSpec): once a stop has made the phase idle, only a start
\* handler changes the phase or the cursor; the end of the dispatch that was in
\* flight (an answer of either kind, or a transport failure with the retries used
\* up) leaves the state object alone and schedules nothing.
C24_StoppedStaysIdle ==
    [][Phase = "idle" =>
          /\ \/ state'.state = "idle" /\ state'.currentIndex = Cursor
             \/ \E t \in Pending : StartStep(t)
          /\ \A t \in Pending :
                (RespondOk(t) \/ RespondFail(t) \/ TransportFails(t)) =>
                    state' = state /\ tasks' = Without(t)]_vars

\* C25 (as claimed): in every reachable state 0 <= cursor <= len(prompts).
C25_CursorInRange == Cursor \in 0..Total

\* C26 (as claimed): whenever no handler or step is suspended, the stored record
\* is the state object in memory (no record yet: the initial state object).
C26_StoredIsState ==
    Quiet => IF stored = <<>> THEN state = InitState ELSE stored = <<state>>

\* C27: a dispatch goes to a tab into which the script was injected; the phase
\* becomes running only by the state replacement of a start whose injection is
\* over, or by a resume; a step of the loop comes into being only after that
\* replacement (when a start or resume handler goes on, or the timer fires); and
\* a start that finds no active tab or fails to inject answers {success: false},
\* leaves the phase error with its message, and ends without a step.
C27_InjectBeforeRun ==
    /\ [](\A t \in Pending :
            t.pc \in {"started", "send", "backoff"} => t.tabId \in Tabs)
    /\ [](Phase \in {"running", "paused"} => state.tabId \in Tabs)
    /\ [][ /\ (Phase # "running" /\ state'.state = "running") =>
                  \/ \E t \in Pending : t.pc = "inject" /\ StartInit(t)
                  \/ ResumeCmd
           /\ (\E u \in BagToSet(tasks') : u.pc = "save" /\ u \notin Pending) =>
                  \/ \E t \in Pending : t.pc = "started" /\ StartReturn(t)
                  \/ ResumeReturnStep
                  \/ TimerFiresStep
           /\ \A t \in Pending :
                  (StartQueryFails(t) \/ StartInjectFails(t)) =>
                      /\ resp' = [cmd |-> "start", success |-> FALSE]
                      /\ state'.state = "error"
                      /\ state'.currentPrompt # <<>>
                      /\ tasks' = Without(t)
                      /\ NOutstanding' = NOutstanding ]_vars

\* C27 witness: the first start failed to inject the script: it answered
\* {success: false}, the phase is error and nothing was dispatched.
C27_Witness ==
    /\ resp = [cmd |-> "start", success |-> FALSE]
    /\ Phase = "error"
    /\ state.currentPrompt = Text("Cannot access tab")
    /\ state.tabId = NoTab
    /\ Quiet

\* The fields of the state object a start fixes for its run.
RunFields(s) ==
    [ prompts |-> s.prompts, totalPrompts |-> s.totalPrompts, delay |-> s.delay,
      autoDownload |-> s.autoDownload, tabId |-> s.tabId ]

C29_NoFailureDropped ==
    [][\A t \in Pending :
          (RespondFail(t) \/ TransportFails(t)) =>
              /\ state'.state = "error"
              /\ state'.currentPrompt = Text("Error: ") \o Text(ErrorOf(reply'))
              /\ stored' = <<state'>>]_vars

\* C30 (FairSoloSpec: one start, no pause or stop, every dispatch gets its
\* callback and the timers fire): a run of a non-empty list that has become
\* running eventually reaches phase finished or phase error.
C30_RunEnds ==
    (Phase = "running" /\ Total > 0) ~> (Phase \in {"finished", "error"})

\* C30 witness: a run of two prompts went through both steps and the timer
\* between them, and is finished.
C30_Witness ==
    /\ Phase = "finished"
    /\ Total = 2 /\ Cursor = 2
    /\ reply = OkResponse
    /\ page.submitted
    /\ Quiet

\* A step of the loop is under way: entered and not yet ended.

\* C31 (as claimed): while the phase is idle or finished the preview is empty,
\* and while it is running with a step under way the preview is that of
\* prompts[cursor].
C31_PreviewFollowsPhase ==
    /\ Phase \in {"idle", "finished"} => state.currentPrompt = <<>>
    /\ (Phase = "running" /\ \E t \in Pending : t.pc \in {"save", "send", "backoff"}) =>
          /\ Cursor < Total
          /\ state.currentPrompt = Preview(state.prompts[Cursor + 1])

\* C32 (as claimed): while the phase is finished the cursor is len(prompts), and
\* only a step of a start handler takes the phase out of finished or moves the
\* cursor: commands, late answers and late transport failures do not.
C32_FinishedStays ==
    /\ [](Phase = "finished" => Cursor = Total)
    /\ [][Phase = "finished" =>
             \/ state'.state = "finished" /\ state'.currentIndex = Cursor
             \/ \E t \in Pending : StartStep(t)]_vars

\* C33 (StageSpec): the stages a request has gone through are in the fixed
\* order, each at most once; the button is clicked at most once, and only after
\* the prompt was typed and the button was then seen enabled; a request that
\* fails has not clicked; a request that succeeds went through every stage (the
\* clearing only for a textarea that held a value, the download only with
\* auto-download on); and the result is that of submitPrompt taken as a whole.
C33_StagesInOrder ==
    LET InOrder(seq) ==
            \A i, j \in 1..Len(seq) : i < j => StageNo(seq[i]) < StageNo(seq[j])
        Did(stage) == \E i \in 1..Len(script.done) : script.done[i] = stage
    IN
    /\ InOrder(script.done)
    /\ script.clicks <= 1
    /\ script.clicks = 1 <=> Did("click")
    /\ Did("click") => Did("type") /\ Did("ready") /\ script.value = "prompt"
    /\ script.pc = "returned" =>
          /\ script.result = submitPrompt(script.pg, config).result
          /\ script.result.success <=> Did("click")
          /\ script.result.success =>
                /\ \A stage \in {"textarea", "button", "enabled", "type", "ready",
                                  "click", "settle"} : Did(stage)
                /\ Did("download") <=> config
                /\ script.download = submitPrompt(script.pg, config).page.download
          /\ ~script.result.success => script.clicks = 0 /\ script.download = "none"

\* C33 witness: the button did not become enabled again after the prompt was
\* typed over an old value: the request has failed without a click.
C33_Witness ==
    /\ script.pc = "returned"
    /\ script.done = <<"textarea", "button", "enabled", "clear", "type">>
    /\ script.result = Failure("Timeout waiting for button to become enabled")
    /\ script.clicks = 0

\* C34 (WaitSpec): the wait settles, and exactly once: resolve and reject are
\* called once between them; it resolves in the call itself when the button is
\* enabled, without an observer or a timer; while it waits the button has been
\* disabled ever since the call; the first task of the page that leaves the
\* button enabled resolves it, a timeout while it waits rejects it; and once
\* settled the observer is disconnected and the timer cleared, whatever the
\* page does afterwards.
C34_SettlesOnce ==
    /\ [](/\ script.resolves + script.rejects <= 1
          /\ script.pc = "settled" <=> script.resolves + script.rejects = 1
          /\ script.pc = "settled" => ~script.observer /\ ~script.timer
          /\ script.outcome = "resolved" <=> script.resolves = 1
          /\ script.outcome = "rejected" <=> script.rejects = 1
          /\ script.pc = "waiting" =>
                /\ script.disabled /\ script.observer /\ script.timer
                /\ \A i \in 1..Len(script.seen) : script.seen[i])
    /\ [][ /\ (script.pc = "call" /\ ~script.disabled) =>
                  script'.outcome = "resolved" /\ script'.seen = <<>>
           /\ (script.pc = "waiting" /\ ~script'.disabled) =>
                  script'.outcome = "resolved"
           /\ (script.pc = "waiting" /\ TimeoutFires) => script'.outcome = "rejected"
           /\ script.pc = "settled" =>
                  /\ script'.outcome = script.outcome
                  /\ script'.resolves = script.resolves
                  /\ script'.rejects = script.rejects ]_vars
    /\ <>(script.pc = "settled")

\* C34 witness: the button was disabled at the call and after two tasks of the
\* page, the third left it enabled and resolved the wait; it was disabled again
\* later and nothing more happened.
C34_Witness ==
    /\ script.pc = "settled"
    /\ script.outcome = "resolved"
    /\ script.seen = <<TRUE, TRUE, FALSE, TRUE>>
    /\ script.resolves = 1 /\ script.rejects = 0
    /\ ~script.observer /\ ~script.timer

\* C35 (PollSpec): every call of waitForElement settles; a poll that finds the
\* node resolves (so it resolves at the first poll at which the node is there),
\* a poll that finds none rejects exactly when more than `timeout` ms have passed
\* since the call and otherwise sleeps once more; nothing is polled after the
\* settlement; and the number of polls is bounded by the timeout.
C35_PollTerminates ==
    /\ [](/\ script.outcome = "resolved" => script.present
          /\ script.outcome = "rejected" =>
                ~script.present /\ script.elapsed > script.timeout
          /\ script.pc = "settled" <=> script.outcome # "pending"
          /\ script.pc = "sleeping" => script.elapsed <= script.timeout
          /\ script.polls >= 2 =>
                (script.polls - 2) * PollInterval <= script.timeout)
    /\ [][ /\ script'.polls = script.polls + 1 =>
                  /\ script'.present = script.present
                  /\ script.present => script'.outcome = "resolved"
                  /\ (~script.present /\ script'.elapsed > script.timeout) =>
                        script'.outcome = "rejected"
                  /\ (~script.present /\ script'.elapsed <= script.timeout) =>
                        script'.pc = "sleeping"
           /\ script.pc = "settled" => script' = script ]_vars
    /\ <>(script.pc = "settled")

\* C35 witness: the node was not there during a timeout of 400 ms; the poll
\* taken after the deadline, the fourth, found none and rejected.
C35_Witness ==
    /\ script.pc = "settled"
    /\ script.outcome = "rejected"
    /\ script.timeout = 400
    /\ script.polls = 4
    /\ script.elapsed = 3 * PollInterval

\* C36 (PreviewSpec): the step of processNextPrompt that takes prompt p from the
\* list publishes as currentPrompt (state, storage, stateUpdate) p itself when p
\* has at most 50 characters and else its first 50 characters followed by "...";
\* the submitPrompt message sent when the write has ended, and every retry of
\* it, carries p as it is in the list.  (CharAt(s, i) is the i-th character of
\* s; Begins(t): continuation t is suspended by this step.)
C36_PreviewAndFullPrompt ==
    [][LET RECURSIVE CharAt(_, _)
        CharAt(s, i) ==
            IF i <= Head(s).n THEN Head(s).c ELSE CharAt(Tail(s), i - Head(s).n)
        IsPreviewOf(v, p) ==
            IF StrLen(p) <= PreviewLen
            THEN v = p
            ELSE /\ StrLen(v) = PreviewLen + 3
                 /\ \A i \in 1..PreviewLen : CharAt(v, i) = CharAt(p, i)
                 /\ \A i \in (PreviewLen + 1)..(PreviewLen + 3) : CharAt(v, i) = "."
        Begins(t) ==
            t \in BagToSet(tasks') /\ CopiesIn(t, tasks') > CopiesIn(t, tasks)
    IN \A t \in BagToSet(tasks') :
            /\ (t.pc = "save" /\ Begins(t)) =>
                  /\ t.prompt = PromptAt(state)
                  /\ IsPreviewOf(state'.currentPrompt, t.prompt)
                  /\ stored' = <<state'>>
                  /\ getState(state').currentPrompt = state'.currentPrompt
            /\ (t.pc = "send" /\ Begins(t)) =>
                  \E u \in Pending :
                      /\ u.pc \in {"save", "backoff"}
                      /\ u.prompt = t.prompt
                      /\ tasks' = Replace(u, t)
            /\ (t.pc = "backoff" /\ Begins(t)) =>
                  \E u \in Pending :
                      /\ u.pc = "send"
                      /\ u.prompt = t.prompt
                      /\ tasks' = Replace(u, t) ]_vars

\* C36 witness: a prompt of 49 "a" and 3 "b" is on its way to the tab in full
\* while the popup is shown its first 50 characters and three dots.
C36_Witness ==
    /\ state.state = "running"
    /\ state.currentPrompt = Chars("a", PreviewLen - 1) \o Chars("b", 1) \o Chars(".", 3)
    /\ \E t \in Pending :
          /\ t.pc = "send"
          /\ t.prompt = Chars("a", PreviewLen - 1) \o Chars("b", 3)
          /\ StrLen(t.prompt) = PreviewLen + 2

====
